---- MODULE Spec2Model ----
(***************************************************************************)
(* Model of markdown_to_json.py: the line-by-line pass of parse_markdown   *)
(* with its helpers split_sentences, extract_notes and ensure_chapter.     *)
(* A text is a sequence of one-character strings; the regular expressions  *)
(* of the module are modelled by scanners over such sequences.             *)
(***************************************************************************)
EXTENDS Integers, Sequences, FiniteSets, TLC

VARIABLES lines, idx, book_title, book_metadata, chapters, current_chapter,
          paragraph_lines, pc, result, arg, parts, ret

vars == <<lines, idx, book_title, book_metadata, chapters, current_chapter,
          paragraph_lines, pc, result, arg, parts, ret>>

parseVars == <<lines, idx, book_title, book_metadata, chapters,
               current_chapter, paragraph_lines, result>>

callVars == <<arg, parts, ret>>

\* ------------------------------------------------------------------------
\* Bounds of the model
\* ------------------------------------------------------------------------
MaxLines == 3
MaxParts == 3

\* The longest paragraph text handed to split_sentences alone.
MaxChars == 5

\* ------------------------------------------------------------------------
\* Characters and basic string operations
\* ------------------------------------------------------------------------
\* Python's None (book_title, current_chapter use it before they are set).
None == <<"<None>">>

\* The characters \s and str.strip() treat as whitespace (those a line can hold).
Whitespace == {" ", "\t"}

\* The characters that end a sentence in SENTENCE_PATTERN.
Terminators == {".", "!", "?"}

\* F(v) with v evaluated once. TLC evaluates the definition of a LET (and an
\* argument of an operator) again at each of its uses when it evaluates
\* ENABLED; a bound variable holds a value.
Once(F(_), v) == CHOOSE y \in {F(x) : x \in {v}} : TRUE

Min(S) == CHOOSE x \in S : \A y \in S : x <= y

Max(S) == CHOOSE x \in S : \A y \in S : x >= y

\* Case folding of re.IGNORECASE over the ASCII letters.
Lower(c) ==
  CASE c = "A" -> "a" [] c = "B" -> "b" [] c = "C" -> "c" [] c = "D" -> "d"
    [] c = "E" -> "e" [] c = "F" -> "f" [] c = "G" -> "g" [] c = "H" -> "h"
    [] c = "I" -> "i" [] c = "J" -> "j" [] c = "K" -> "k" [] c = "L" -> "l"
    [] c = "M" -> "m" [] c = "N" -> "n" [] c = "O" -> "o" [] c = "P" -> "p"
    [] c = "Q" -> "q" [] c = "R" -> "r" [] c = "S" -> "s" [] c = "T" -> "t"
    [] c = "U" -> "u" [] c = "V" -> "v" [] c = "W" -> "w" [] c = "X" -> "x"
    [] c = "Y" -> "y" [] c = "Z" -> "z" [] OTHER -> c

\* The positions of s that do not hold whitespace.
NonBlank(s) == {i \in 1..Len(s) : s[i] \notin Whitespace}

\* str.strip(): drop leading and trailing whitespace.
strip(text) ==
  Once(LAMBDA s :
         Once(LAMBDA keep : IF keep = {} THEN <<>>
                            ELSE SubSeq(s, Min(keep), Max(keep)),
              NonBlank(s)),
       text)

\* str.rstrip(): drop trailing whitespace only.
rstrip(text) ==
  Once(LAMBDA s :
         Once(LAMBDA keep : IF keep = {} THEN <<>>
                            ELSE SubSeq(s, 1, Max(keep)),
              NonBlank(s)),
       text)

\* The k-th smallest element of a set of numbers.
Nth(S, k) == CHOOSE p \in S : Cardinality({q \in S : q <= p}) = k

\* re.sub(r"\s+", " ", s): every maximal whitespace run becomes one space.
\* The positions kept are those of the other characters and the first of
\* each whitespace run.
CollapseRuns(s) ==
  Once(LAMBDA keep :
         [k \in 1..Cardinality(keep) |->
            Once(LAMBDA p : IF s[p] \in Whitespace THEN " " ELSE s[p],
                 Nth(keep, k))],
       {i \in 1..Len(s) :
          s[i] \notin Whitespace \/ i = 1 \/ s[i-1] \notin Whitespace})

normalize_whitespace(text) ==
  Once(LAMBDA s : strip(CollapseRuns(s)), text)

\* Length of the maximal run of characters of set cs starting at position i.
RunLen(s, i, cs) ==
  Once(LAMBDA stop : IF stop = {} THEN Len(s) - i + 1 ELSE Min(stop) - i,
       {j \in i..Len(s) : s[j] \notin cs})

\* Does s hold the literal lit at position i, ignoring case?
HasLiteral(s, i, lit) ==
  /\ i + Len(lit) - 1 <= Len(s)
  /\ \A k \in 1..Len(lit) : Lower(s[i + k - 1]) = lit[k]

\* ------------------------------------------------------------------------
\* The regular expressions
\* ------------------------------------------------------------------------
\* Groups of HEADING_RE on line l whose "#" run has length h and whose
\* whitespace run after it has length w.
HeadingGroups(l, h, w) ==
  IF h >= 1 /\ w >= 1
  THEN [matched |-> TRUE, level |-> h, text |-> SubSeq(l, h + w + 1, Len(l))]
  ELSE [matched |-> FALSE, level |-> 0, text |-> <<>>]

\* HEADING_RE.match(line), ^(#+)\s+(.*)$ : whether it matches, the level
\* (length of group 1) and group 2.
HEADING_RE(line) ==
  Once(LAMBDA l :
         Once(LAMBDA h : HeadingGroups(l, h, RunLen(l, h + 1, Whitespace)),
              RunLen(l, 1, {"#"})),
       line)

\* Group 1 of BY_LINE_RE on t whose whitespace run after "by" has length w.
\* \s+ is greedy and gives one character back when nothing is left for (.+).
ByGroup(t, w) ==
  IF w >= 1
  THEN IF 3 + w <= Len(t) THEN SubSeq(t, 3 + w, Len(t))
       ELSE IF w >= 2 THEN <<t[Len(t)]>> ELSE None
  ELSE None

\* BY_LINE_RE.match(text), ^by\s+(.+)$ ignoring case: None, or group 1.
BY_LINE_RE(text) ==
  Once(LAMBDA t : IF HasLiteral(t, 1, <<"b", "y">>)
                  THEN Once(LAMBDA w : ByGroup(t, w), RunLen(t, 3, Whitespace))
                  ELSE None,
       text)

\* The match without the trailing \s* of the pattern: it ends at the
\* terminator.
MatchEnd_no_whitespace(s, i) ==
  Once(LAMBDA stops : IF stops = {} THEN Len(s) ELSE Min(stops),
       {j \in i..Len(s) : s[j] \in Terminators})

\* The last position of the match of SENTENCE_PATTERN that starts at i: the
\* run of non-terminators, one terminator if there is one, the whitespace
\* after it.
MatchEnd(s, i) ==
  Once(LAMBDA stops :
         IF stops = {} THEN Len(s)
         ELSE Once(LAMBDA term : term + RunLen(s, term + 1, Whitespace),
                   Min(stops)),
       {j \in i..Len(s) : s[j] \in Terminators})

\* SENTENCE_PATTERN.findall(s) from position i, [^.!?]+[.!?]?\s* : the
\* matched substrings in order, added to found.
RECURSIVE SENTENCE_PATTERN(_, _, _)
SENTENCE_PATTERN(s, i, found) ==
  IF i > Len(s) THEN found
  ELSE IF s[i] \in Terminators THEN SENTENCE_PATTERN(s, i + 1, found)
  ELSE Once(LAMBDA last :
              Once(LAMBDA next : SENTENCE_PATTERN(s, last + 1, next),
                   Append(found, SubSeq(s, i, last))),
            MatchEnd(s, i))

\* The characters of s.
Chars(s) == {s[i] : i \in 1..Len(s)}

\* The position of the "]" that ends a marker "[" lit body "]" starting at
\* position i of s, body = [^\]]+ ; 0 when no marker starts there.
MarkerEnd(s, i, lit) ==
  IF s[i] = "[" /\ HasLiteral(s, i + 1, lit)
  THEN Once(LAMBDA closes :
              IF closes # {} /\ Min(closes) > i + 1 + Len(lit)
              THEN Min(closes) ELSE 0,
            {j \in (i + 1 + Len(lit))..Len(s) : s[j] = "]"})
  ELSE 0

\* pattern.sub(replacer, s) from position i for such a marker: the text
\* with the matches removed and the stripped group 1 of every match, added
\* to those found so far (cleaned, notes). Group 1 starts grp characters
\* after the "[". Where no marker starts, the character at i and those
\* after it up to the next "[" are kept: no marker starts at these.
RECURSIVE MarkerSub(_, _, _, _, _, _)
MarkerSub(s, i, lit, grp, cleaned, notes) ==
  IF i > Len(s) THEN [cleaned |-> cleaned, notes |-> notes]
  ELSE Once(LAMBDA j :
              IF j > 0
              THEN Once(LAMBDA more :
                          MarkerSub(s, j + 1, lit, grp, cleaned, more),
                        Append(notes, strip(SubSeq(s, i + grp, j - 1))))
              ELSE Once(LAMBDA n :
                          Once(LAMBDA text :
                                 MarkerSub(s, i + n, lit, grp, text, notes),
                               cleaned \o SubSeq(s, i, i + n - 1)),
                        1 + RunLen(s, i + 1, Chars(s) \ {"["})),
            MarkerEnd(s, i, lit))

\* FOOTNOTE_REF_RE.sub(footnote_replacer, s), \[\^([^\]]+)\]
FOOTNOTE_REF_RE(s) == MarkerSub(s, 1, <<"^">>, 2, <<>>, <<>>)

\* INLINE_FOOTNOTE_RE.sub(inline_footnote_replacer, s), \[(footnote:[^\]]+)\]
INLINE_FOOTNOTE_RE(s) ==
  MarkerSub(s, 1, <<"f", "o", "o", "t", "n", "o", "t", "e", ":">>, 1,
            <<>>, <<>>)

\* ------------------------------------------------------------------------
\* split_sentences, extract_notes
\* ------------------------------------------------------------------------
\* [normalize_whitespace(match) for match in found] without the empty ones,
\* from position k of found on, added to out.
RECURSIVE normalized(_, _, _)
normalized(found, k, out) ==
  IF k > Len(found) THEN out
  ELSE Once(LAMBDA st : normalized(found, k + 1,
                          IF st = <<>> THEN out ELSE Append(out, st)),
            normalize_whitespace(found[k]))

\* split_sentences that does not split: the paragraph as one sentence.
split_sentences_whole(paragraph) ==
  Once(LAMBDA p : IF p = <<>> THEN <<>> ELSE <<normalize_whitespace(p)>>,
       strip(paragraph))

split_sentences(paragraph) ==
  Once(LAMBDA p :
         IF p = <<>> THEN <<>>
         ELSE Once(LAMBDA found : normalized(found, 1, <<>>),
                   SENTENCE_PATTERN(p, 1, <<>>)),
       strip(paragraph))

\* extract_notes with the two substitutions of lines 38 and 39 in the other
\* order.
extract_notes_swapped(sentence) ==
  Once(LAMBDA first :
         Once(LAMBDA second : <<normalize_whitespace(second.cleaned),
                                first.notes \o second.notes>>,
              FOOTNOTE_REF_RE(first.cleaned)),
       INLINE_FOOTNOTE_RE(sentence))

\* Returns the pair (cleaned sentence, notes).
extract_notes(sentence) ==
  Once(LAMBDA first :
         Once(LAMBDA second : <<normalize_whitespace(second.cleaned),
                                first.notes \o second.notes>>,
              INLINE_FOOTNOTE_RE(first.cleaned)),
       FOOTNOTE_REF_RE(sentence))

\* ------------------------------------------------------------------------
\* Literals of parse_markdown
\* ------------------------------------------------------------------------
\* "Untitled": the default title, line 136
Untitled ==
  <<"U", "n", "t", "i", "t", "l", "e", "d">>

\* "Section 1": the fallback chapter title, lines 124 and 130
Section1 ==
  <<"S", "e", "c", "t", "i", "o", "n", " ", "1">>

\* ------------------------------------------------------------------------
\* Inputs
\* ------------------------------------------------------------------------
\* the line "# T"
L_Title ==
  <<"#", " ", "T">>

\* the line "# by Z"
L_ByHeading ==
  <<"#", " ", "b", "y", " ", "Z">>

\* the line "## C"
L_Chapter ==
  <<"#", "#", " ", "C">>

\* the line ""
L_Blank ==
  <<>>

\* the line "by  Bo"
L_ByLine ==
  <<"b", "y", " ", " ", "B", "o">>

\* the line "- i"
L_Item ==
  <<"-", " ", "i">>

\* the line " - j[^2]"
L_ItemNote ==
  <<" ", "-", " ", "j", "[", "^", "2", "]">>

\* the line " a. b"
L_Prose ==
  <<" ", "a", ".", " ", "b">>

\* the line "..."
L_Dots ==
  <<".", ".", ".">>

\* the line "x[^1] [footnote:k]"
L_Notes ==
  <<"x", "[", "^", "1", "]", " ", "[", "f", "o", "o", "t", "n", "o", "t",
    "e", ":", "k", "]">>

\* the line "[^n]"
L_OnlyMarker ==
  <<"[", "^", "n", "]">>

LinePool ==
  {L_Title,
   L_ByHeading,
   L_Chapter,
   L_Blank,
   L_ByLine,
   L_Item,
   L_ItemNote,
   L_Prose,
   L_Dots,
   L_Notes,
   L_OnlyMarker}

\* the text "# My Book"
X_MyBook ==
  <<"#", " ", "M", "y", " ", "B", "o", "o", "k">>

\* the text "by Jane Doe"
X_ByJane ==
  <<"b", "y", " ", "J", "a", "n", "e", " ", "D", "o", "e">>

\* the text "## Ch1"
X_Ch1 ==
  <<"#", "#", " ", "C", "h", "1">>

\* the text "Hello world. This is a test."
X_Hello ==
  <<"H", "e", "l", "l", "o", " ", "w", "o", "r", "l", "d", ".", " ", "T",
    "h", "i", "s", " ", "i", "s", " ", "a", " ", "t", "e", "s", "t", ".">>

\* the text "Just a line."
X_JustALine ==
  <<"J", "u", "s", "t", " ", "a", " ", "l", "i", "n", "e", ".">>

\* the text "My Book"
T_MyBook ==
  <<"M", "y", " ", "B", "o", "o", "k">>

\* the text "Jane Doe"
T_JaneDoe ==
  <<"J", "a", "n", "e", " ", "D", "o", "e">>

\* the text "Ch1"
T_Ch1 ==
  <<"C", "h", "1">>

\* the text "Hello world."
T_HelloWorld ==
  <<"H", "e", "l", "l", "o", " ", "w", "o", "r", "l", "d", ".">>

\* the text "This is a test."
T_ThisIsATest ==
  <<"T", "h", "i", "s", " ", "i", "s", " ", "a", " ", "t", "e", "s", "t",
    ".">>

\* the text "by Jane Doe"
T_ByJaneDoe ==
  <<"b", "y", " ", "J", "a", "n", "e", " ", "D", "o", "e">>

\* The example document of the specification, one entry per line.
ExampleBook ==
  <<X_MyBook, <<>>, X_ByJane, <<>>, X_Ch1, <<>>, X_Hello>>

\* All sequences of at most n lines of the pool.
LineSeqs(n) ==
  UNION {[1..k -> LinePool] : k \in 0..n}

\* markdown_text.splitlines(): the inputs of parse_markdown, as lines.
Inputs == LineSeqs(MaxLines) \cup {ExampleBook, <<X_JustALine>>}

\* ------------------------------------------------------------------------
\* parse_markdown: helpers of the pass
\* ------------------------------------------------------------------------
\* current_chapter is None: no chapter is open. An open chapter is held as
\* its position in chapters (the object current_chapter refers to is always
\* an element of that list).
NoChapter == 0

\* " ".join(line.strip() for line in paragraph_lines if line.strip()):
\* the lines from position i on, joined to the text so far.
RECURSIVE join_from(_, _, _)
join_from(plines, i, text) ==
  IF i > Len(plines) THEN text
  ELSE Once(LAMBDA joined : join_from(plines, i + 1, joined),
            Once(LAMBDA l : IF l = <<>> THEN text
                            ELSE IF text = <<>> THEN l
                            ELSE text \o <<" ">> \o l,
                 strip(plines[i])))

join_lines(plines) == join_from(plines, 1, <<>>)

\* sentence_entry with the notes field always set: the test of line 81 left
\* out.
sentence_entry_always_notes(number, sentence) ==
  Once(LAMBDA en : [sentence_number |-> number, text |-> en[1],
                    notes |-> en[2]],
       extract_notes(sentence))

\* The sentence record built in the loop of flush_paragraph.
sentence_entry(number, sentence) ==
  Once(LAMBDA en :
         IF en[2] # <<>>
         THEN [sentence_number |-> number, text |-> en[1], notes |-> en[2]]
         ELSE [sentence_number |-> number, text |-> en[1]],
       extract_notes(sentence))

\* for number, sentence in enumerate(sentences_raw, start=1): the records of
\* the sentences from position k on, added to sentences.
RECURSIVE entries_from(_, _, _)
entries_from(sentences_raw, k, sentences) ==
  IF k > Len(sentences_raw) THEN sentences
  ELSE Once(LAMBDA more : entries_from(sentences_raw, k + 1, more),
            Append(sentences, sentence_entry(k, sentences_raw[k])))

\* The records of all sentences of a paragraph text, numbered from 1.
sentence_entries(paragraph_text) ==
  Once(LAMBDA sentences_raw : entries_from(sentences_raw, 1, <<>>),
       split_sentences(paragraph_text))

\* paragraph_entry numbering from 0: the increment of line 87 left out.
paragraph_entry_zero_based(chapter, sentences) ==
  [paragraph_number |-> Len(chapter.paragraphs), sentences |-> sentences]

\* The paragraph record appended to a chapter.
paragraph_entry(chapter, sentences) ==
  [paragraph_number |-> Len(chapter.paragraphs) + 1, sentences |-> sentences]

\* flush_paragraph that puts the paragraph in place of those of the chapter
\* instead of appending it.
flush_paragraph_replace(cur, chapter_list, plines) ==
  Once(LAMBDA chs :
    IF cur = NoChapter THEN chs
    ELSE Once(LAMBDA sentences :
           IF sentences = <<>> THEN chs
           ELSE [chs EXCEPT ![cur].paragraphs =
                   <<paragraph_entry(chs[cur], sentences)>>],
           sentence_entries(join_lines(plines))),
    chapter_list)

\* flush_paragraph without the test of line 84: a paragraph of no sentences
\* is appended too.
flush_paragraph_keeps_empty(cur, chapter_list, plines) ==
  Once(LAMBDA chs :
    IF cur = NoChapter THEN chs
    ELSE Once(LAMBDA paragraph_text :
           IF paragraph_text = <<>> THEN chs
           ELSE [chs EXCEPT ![cur].paragraphs =
                   Append(@, paragraph_entry(chs[cur],
                                sentence_entries(paragraph_text)))],
           join_lines(plines)),
    chapter_list)

\* flush_paragraph(): the chapters after the flush (paragraph_lines is
\* emptied by every flush, see the actions).
flush_paragraph(cur, chapter_list, plines) ==
  Once(LAMBDA chs :
    IF cur = NoChapter THEN chs
    ELSE Once(LAMBDA paragraph_text :
           IF paragraph_text = <<>> THEN chs
           ELSE Once(LAMBDA sentences :
                  IF sentences = <<>> THEN chs
                  ELSE [chs EXCEPT ![cur].paragraphs =
                          Append(@, paragraph_entry(chs[cur], sentences))],
                  sentence_entries(paragraph_text)),
           join_lines(plines)),
    chapter_list)

\* The chapter record created by a heading or by ensure_chapter.
new_chapter(chs, title) ==
  [chapter_number |-> Len(chs) + 1, chapter_title |-> title,
   paragraphs |-> <<>>]

\* ensure_chapter without the test of line 44: a chapter is created even
\* when one is open.
ensure_chapter_always_new(cur, chs, fallback_title) ==
  [current  |-> Len(chs) + 1,
   chapters |-> Append(chs, new_chapter(chs, fallback_title))]

\* ensure_chapter returning the index of the chapter that was last before
\* the new one was appended.
ensure_chapter_stale_current(cur, chs, fallback_title) ==
  IF cur # NoChapter THEN [current |-> cur, chapters |-> chs]
  ELSE [current  |-> Len(chs),
        chapters |-> Append(chs, new_chapter(chs, fallback_title))]

\* ensure_chapter that never creates a chapter.
ensure_chapter_no_create(cur, chs, fallback_title) ==
  [current |-> cur, chapters |-> chs]

\* ensure_chapter: the current chapter and the chapters afterwards.
ensure_chapter(cur, chs, fallback_title) ==
  IF cur # NoChapter THEN [current |-> cur, chapters |-> chs]
  ELSE [current  |-> Len(chs) + 1,
        chapters |-> Append(chs, new_chapter(chs, fallback_title))]

\* A fallback title that takes the default document title instead of
\* "Section 1".
fallback_title_untitled(title) ==
  IF title = None \/ title = <<>> THEN Untitled ELSE title

\* book_title or "Section 1"
fallback_title(title) ==
  IF title = None \/ title = <<>> THEN Section1 ELSE title

\* record_author without the "authors" not in book_metadata guard: the last
\* match wins.
record_author_last_wins(metadata, text) ==
  Once(LAMBDA by_match :
         IF by_match # None
         THEN [authors |-> <<normalize_whitespace(by_match)>>]
         ELSE metadata,
       BY_LINE_RE(text))

\* if by_match and "authors" not in book_metadata: book_metadata["authors"] = ...
record_author(metadata, text) ==
  Once(LAMBDA by_match :
         IF by_match # None /\ "authors" \notin DOMAIN metadata
         THEN [authors |-> <<normalize_whitespace(by_match)>>]
         ELSE metadata,
       BY_LINE_RE(text))

\* The list-item branch without the flush of line 125: the item joins the
\* pending lines.
list_item_merged(cur, chs, plines, stripped) ==
  flush_paragraph(cur, chs, Append(plines, stripped))

\* The list-item branch once the chapter is ensured: flush the pending
\* lines, then flush the item alone. Returns the chapters afterwards.
list_item(cur, chs, plines, stripped) ==
  flush_paragraph(cur, flush_paragraph(cur, chs, plines), <<stripped>>)

\* book_data with the metadata field always set: the test of line 142 left
\* out.
book_data_always_metadata(title, chs, metadata) ==
  [book |-> [title |-> title, chapters |-> chs, metadata |-> metadata]]

\* The dictionary returned by parse_markdown.
book_data(title, chs, metadata) ==
  LET base == [title |-> title, chapters |-> chs]
  IN  [book |-> IF DOMAIN metadata # {}
                THEN base @@ [metadata |-> metadata]
                ELSE base]

\* ------------------------------------------------------------------------
\* parse_markdown: the pass as a state machine
\* ------------------------------------------------------------------------
\* Before parse_markdown is called.
Init ==
  /\ lines = <<>>
  /\ idx = 1
  /\ book_title = None
  /\ book_metadata = <<>>
  /\ chapters = <<>>
  /\ current_chapter = NoChapter
  /\ paragraph_lines = <<>>
  /\ pc = "start"
  /\ result = None
  /\ arg = <<>>
  /\ parts = <<>>
  /\ ret = <<>>

\* The call: the input is split into lines, the locals are initialised and
\* the loop is entered.
Call ==
  /\ pc = "start"
  /\ lines' \in Inputs
  /\ idx' = 1
  /\ book_title' = None
  /\ book_metadata' = <<>>
  /\ chapters' = <<>>
  /\ current_chapter' = NoChapter
  /\ paragraph_lines' = <<>>
  /\ pc' = "loop"
  /\ UNCHANGED <<result, callVars>>

\* raw_line.rstrip() of the line the loop is at.
line == rstrip(lines[idx])

heading_match == HEADING_RE(line)

heading_text == strip(heading_match.text)

stripped == strip(line)

AtLine == pc = "loop" /\ idx <= Len(lines)

\* The title branch without the reset of line 101: the open chapter stays
\* the current one.
TitleHeading_keeps_current ==
  /\ AtLine
  /\ heading_match.matched
  /\ book_title = None /\ heading_match.level = 1
  /\ chapters' = flush_paragraph(current_chapter, chapters, paragraph_lines)
  /\ paragraph_lines' = <<>>
  /\ book_title' = heading_text
  /\ idx' = idx + 1
  /\ UNCHANGED <<lines, book_metadata, current_chapter, pc, result, callVars>>

\* The first level-1 heading: it becomes the title.
TitleHeading ==
  /\ AtLine
  /\ heading_match.matched
  /\ book_title = None /\ heading_match.level = 1
  /\ chapters' = flush_paragraph(current_chapter, chapters, paragraph_lines)
  /\ paragraph_lines' = <<>>
  /\ book_title' = heading_text
  /\ current_chapter' = NoChapter
  /\ idx' = idx + 1
  /\ UNCHANGED <<lines, book_metadata, pc, result, callVars>>

\* The chapter branch with the flush of line 97 moved after the creation of
\* the chapter: the pending lines land in the new chapter.
ChapterHeading_flush_after ==
  /\ AtLine
  /\ heading_match.matched
  /\ ~(book_title = None /\ heading_match.level = 1)
  /\ chapters' = flush_paragraph(Len(chapters) + 1,
                   Append(chapters, new_chapter(chapters, heading_text)),
                   paragraph_lines)
  /\ current_chapter' = Len(chapters) + 1
  /\ paragraph_lines' = <<>>
  /\ book_metadata' = record_author(book_metadata, heading_text)
  /\ idx' = idx + 1
  /\ UNCHANGED <<lines, book_title, pc, result, callVars>>

\* Any other heading: it opens a new chapter.
ChapterHeading ==
  /\ AtLine
  /\ heading_match.matched
  /\ ~(book_title = None /\ heading_match.level = 1)
  /\ LET flushed == flush_paragraph(current_chapter, chapters, paragraph_lines)
     IN  /\ chapters' = Append(flushed, new_chapter(flushed, heading_text))
         /\ current_chapter' = Len(flushed) + 1
  /\ paragraph_lines' = <<>>
  /\ book_metadata' = record_author(book_metadata, heading_text)
  /\ idx' = idx + 1
  /\ UNCHANGED <<lines, book_title, pc, result, callVars>>

\* The blank-line branch closing the chapter as well.
BlankLine_resets_current ==
  /\ AtLine
  /\ ~heading_match.matched
  /\ stripped = <<>>
  /\ chapters' = flush_paragraph(current_chapter, chapters, paragraph_lines)
  /\ paragraph_lines' = <<>>
  /\ current_chapter' = NoChapter
  /\ idx' = idx + 1
  /\ UNCHANGED <<lines, book_title, book_metadata, pc, result, callVars>>

\* A line that is empty after stripping.
BlankLine ==
  /\ AtLine
  /\ ~heading_match.matched
  /\ stripped = <<>>
  /\ chapters' = flush_paragraph(current_chapter, chapters, paragraph_lines)
  /\ paragraph_lines' = <<>>
  /\ idx' = idx + 1
  /\ UNCHANGED <<lines, book_title, book_metadata, current_chapter, pc,
                 result, callVars>>

\* stripped.startswith("- ")
IsListItem(text) == Len(text) >= 2 /\ text[1] = "-" /\ text[2] = " "

ListItemLine ==
  /\ AtLine
  /\ ~heading_match.matched
  /\ stripped # <<>>
  /\ IsListItem(stripped)
  /\ book_metadata' = record_author(book_metadata, stripped)
  /\ LET ens == ensure_chapter(current_chapter, chapters,
                               fallback_title(book_title))
     IN  /\ current_chapter' = ens.current
         /\ chapters' = list_item(ens.current, ens.chapters, paragraph_lines,
                                  stripped)
  /\ paragraph_lines' = <<>>
  /\ idx' = idx + 1
  /\ UNCHANGED <<lines, book_title, pc, result, callVars>>

\* The plain-line branch treating a recorded by-line as metadata only: the
\* line is not kept as content.
PlainLine_author_only ==
  /\ AtLine
  /\ ~heading_match.matched
  /\ stripped # <<>>
  /\ ~IsListItem(stripped)
  /\ book_metadata' = record_author(book_metadata, stripped)
  /\ IF book_metadata' # book_metadata
       THEN UNCHANGED <<current_chapter, chapters, paragraph_lines>>
       ELSE /\ LET ens == ensure_chapter(current_chapter, chapters,
                                         fallback_title(book_title))
               IN  /\ current_chapter' = ens.current
                   /\ chapters' = ens.chapters
            /\ paragraph_lines' = Append(paragraph_lines, line)
  /\ idx' = idx + 1
  /\ UNCHANGED <<lines, book_title, pc, result, callVars>>

\* Any other line: it joins the pending paragraph.
PlainLine ==
  /\ AtLine
  /\ ~heading_match.matched
  /\ stripped # <<>>
  /\ ~IsListItem(stripped)
  /\ book_metadata' = record_author(book_metadata, stripped)
  /\ LET ens == ensure_chapter(current_chapter, chapters,
                               fallback_title(book_title))
     IN  /\ current_chapter' = ens.current
         /\ chapters' = ens.chapters
  /\ paragraph_lines' = Append(paragraph_lines, line)
  /\ idx' = idx + 1
  /\ UNCHANGED <<lines, book_title, pc, result, callVars>>

\* The flush after the loop.
FinalFlush ==
  /\ pc = "loop" /\ idx > Len(lines)
  /\ chapters' = flush_paragraph(current_chapter, chapters, paragraph_lines)
  /\ paragraph_lines' = <<>>
  /\ pc' = "flushed"
  /\ UNCHANGED <<lines, idx, book_title, book_metadata, current_chapter,
                 result, callVars>>

\* The default title and the returned dictionary.
Return ==
  /\ pc = "flushed"
  /\ book_title' = IF book_title = None THEN Untitled ELSE book_title
  /\ result' = book_data(book_title', chapters, book_metadata)
  /\ pc' = "done"
  /\ UNCHANGED <<lines, idx, book_metadata, chapters, current_chapter,
                 paragraph_lines, callVars>>

Next ==
  \/ Call
  \/ TitleHeading
  \/ ChapterHeading
  \/ BlankLine
  \/ ListItemLine
  \/ PlainLine
  \/ FinalFlush
  \/ Return

Spec == Init /\ [][Next]_vars

\* The pass is sequential code that always runs on: every step that can be
\* taken is taken.
FairSpec == Spec /\ WF_vars(Next)

\* ------------------------------------------------------------------------
\* extract_notes called on its own
\* ------------------------------------------------------------------------
\* A sentence is put together from parts: plain text, a "[^identifier]"
\* marker, or a "[footnote:...]" marker with the word as it is written.
\* the text "See this"
T_SeeThis ==
  <<"S", "e", "e", " ", "t", "h", "i", "s">>

\* the text " for detail."
T_ForDetail ==
  <<" ", "f", "o", "r", " ", "d", "e", "t", "a", "i", "l", ".">>

\* the text " [x]\t"
T_Bracket ==
  <<" ", "[", "x", "]", "\t">>

\* the text "1"
T_One ==
  <<"1">>

\* the text " n 2 "
T_SpacedId ==
  <<" ", "n", " ", "2", " ">>

\* the text "footnote:"
T_Footnote ==
  <<"f", "o", "o", "t", "n", "o", "t", "e", ":">>

\* the text "FootNote:"
T_FootNote ==
  <<"F", "o", "o", "t", "N", "o", "t", "e", ":">>

\* the text "k"
T_K ==
  <<"k">>

\* the text " m "
T_SpacedM ==
  <<" ", "m", " ">>

\* the text "See this for detail."
T_SeeThisForDetail ==
  <<"S", "e", "e", " ", "t", "h", "i", "s", " ", "f", "o", "r", " ", "d",
    "e", "t", "a", "i", "l", ".">>

PartPool ==
  {[kind |-> "text",   word |-> <<>>,       body |-> T_SeeThis],
   [kind |-> "text",   word |-> <<>>,       body |-> T_ForDetail],
   [kind |-> "text",   word |-> <<>>,       body |-> T_Bracket],
   [kind |-> "ref",    word |-> <<>>,       body |-> T_One],
   [kind |-> "ref",    word |-> <<>>,       body |-> T_SpacedId],
   [kind |-> "inline", word |-> T_Footnote, body |-> T_K],
   [kind |-> "inline", word |-> T_FootNote, body |-> T_SpacedM]}

\* All sequences of at most n parts of the pool.
PartSeqs(n) ==
  UNION {[1..k -> PartPool] : k \in 0..n}

\* The characters of one part, and of a sequence of parts.
RenderPart(q) ==
  CASE q.kind = "text"   -> q.body
    [] q.kind = "ref"    -> <<"[", "^">> \o q.body \o <<"]">>
    [] q.kind = "inline" -> <<"[">> \o q.word \o q.body \o <<"]">>

RECURSIVE Render(_)
Render(ps) ==
  IF ps = <<>> THEN <<>> ELSE RenderPart(Head(ps)) \o Render(Tail(ps))

InitNotes ==
  /\ parts \in PartSeqs(MaxParts)
  /\ arg = Render(parts)
  /\ ret = <<>>
  /\ pc = "call"
  /\ lines = <<>>
  /\ idx = 1
  /\ book_title = None
  /\ book_metadata = <<>>
  /\ chapters = <<>>
  /\ current_chapter = NoChapter
  /\ paragraph_lines = <<>>
  /\ result = None

\* The call extract_notes(arg).
ExtractNotes ==
  /\ pc = "call"
  /\ ret' = extract_notes(arg)
  /\ pc' = "returned"
  /\ UNCHANGED <<arg, parts, parseVars>>

NextNotes == ExtractNotes

SpecNotes == InitNotes /\ [][NextNotes]_vars

\* ------------------------------------------------------------------------
\* Properties
\* ------------------------------------------------------------------------
\* Chapters, their paragraphs and their sentences are numbered 1, 2, 3, ...
Numbered(chs) ==
  \A i \in 1..Len(chs) :
    /\ chs[i].chapter_number = i
    /\ \A j \in 1..Len(chs[i].paragraphs) :
         /\ chs[i].paragraphs[j].paragraph_number = j
         /\ \A k \in 1..Len(chs[i].paragraphs[j].sentences) :
              chs[i].paragraphs[j].sentences[k].sentence_number = k

\* The texts of the sentences of a paragraph, in order.
Texts(paragraph) ==
  [k \in 1..Len(paragraph.sentences) |-> paragraph.sentences[k].text]

\* C1: in the document returned by parse_markdown (and in every state of
\* the pass) the i-th chapter has chapter_number i, the j-th paragraph of a
\* chapter has paragraph_number j and the k-th sentence of a paragraph has
\* sentence_number k.
C1_Numbering ==
  /\ Numbered(chapters)
  /\ pc = "done" => Numbered(result.book.chapters)

\* A returned document with two chapters, a chapter of two paragraphs and a
\* paragraph of two sentences.
C1_Witness ==
  /\ pc = "done"
  /\ Len(result.book.chapters) >= 2
  /\ \E i \in 1..Len(result.book.chapters) :
       LET ps == result.book.chapters[i].paragraphs
       IN  /\ Len(ps) >= 2
           /\ \E j \in 1..Len(ps) : Len(ps[j].sentences) >= 2

\* C2 as stated: for the example document the result has title "My Book",
\* authors ["Jane Doe"] and exactly one chapter, "Ch1", with one paragraph
\* of the sentences "Hello world." and "This is a test.".
C2_Original ==
  (pc = "done" /\ lines = ExampleBook) =>
    /\ result.book.title = T_MyBook
    /\ result.book.metadata.authors = <<T_JaneDoe>>
    /\ Len(result.book.chapters) = 1
    /\ result.book.chapters[1].chapter_title = T_Ch1
    /\ Len(result.book.chapters[1].paragraphs) = 1
    /\ Texts(result.book.chapters[1].paragraphs[1]) =
         <<T_HelloWorld, T_ThisIsATest>>

\* C2 amended: for the example document the result has title "My Book",
\* authors ["Jane Doe"] and exactly two chapters: a fallback chapter titled
\* "My Book" whose one paragraph is the sentence "by Jane Doe", then "Ch1"
\* with one paragraph of the sentences "Hello world." and "This is a test.".
C2_Example ==
  (pc = "done" /\ lines = ExampleBook) =>
    /\ result.book.title = T_MyBook
    /\ result.book.metadata.authors = <<T_JaneDoe>>
    /\ Len(result.book.chapters) = 2
    /\ result.book.chapters[1].chapter_title = T_MyBook
    /\ Len(result.book.chapters[1].paragraphs) = 1
    /\ Texts(result.book.chapters[1].paragraphs[1]) = <<T_ByJaneDoe>>
    /\ result.book.chapters[2].chapter_title = T_Ch1
    /\ Len(result.book.chapters[2].paragraphs) = 1
    /\ Texts(result.book.chapters[2].paragraphs[1]) =
         <<T_HelloWorld, T_ThisIsATest>>

\* The example document has been parsed.
C2_Witness == pc = "done" /\ lines = ExampleBook

\* Line i of the input is a heading line.
IsHeadingLine(ls, i) == HEADING_RE(rstrip(ls[i])).matched

\* Line i of the input is a content line: not a heading and not blank.
IsContentLine(ls, i) == ~IsHeadingLine(ls, i) /\ strip(ls[i]) # <<>>

\* The input has content lines and no heading line.
ContentNoHeading(ls) ==
  /\ \A i \in 1..Len(ls) : ~IsHeadingLine(ls, i)
  /\ \E i \in 1..Len(ls) : IsContentLine(ls, i)

\* C3 as stated: without any heading line the title is the placeholder and
\* the only chapter is a fallback chapter titled with the document title.
C3_Original ==
  (pc = "done" /\ ContentNoHeading(lines)) =>
    /\ result.book.title = Untitled
    /\ Len(result.book.chapters) = 1
    /\ result.book.chapters[1].chapter_title = result.book.title

\* C3 amended: without any heading line the title is the placeholder
\* "Untitled" and the only chapter is a fallback chapter titled with the
\* fixed string "Section 1" (not the document title); for the input
\* "Just a line." it holds one paragraph with the one sentence "Just a line.".
C3_Fallback ==
  (pc = "done" /\ ContentNoHeading(lines)) =>
    /\ result.book.title = Untitled
    /\ Len(result.book.chapters) = 1
    /\ result.book.chapters[1].chapter_title = Section1
    /\ lines = <<X_JustALine>> =>
         /\ Len(result.book.chapters[1].paragraphs) = 1
         /\ Texts(result.book.chapters[1].paragraphs[1]) = <<X_JustALine>>

\* "Just a line." has been parsed.
C3_Witness == pc = "done" /\ lines = <<X_JustALine>>

\* C4: parse_markdown is total: the pass takes the lines one by one in
\* order, flushes once after the last line and then returns; for the empty
\* input the result has the title "Untitled", no metadata field and no
\* chapters.
C4_Total ==
  /\ <>(pc = "done")
  /\ [][AtLine => (idx' = idx + 1 /\ pc' = "loop")]_vars
  /\ [][pc' = "flushed" => (pc = "loop" /\ idx = Len(lines) + 1)]_vars
  /\ [][pc' = "done" => pc = "flushed"]_vars
  /\ [](pc = "done" =>
          /\ idx = Len(lines) + 1
          /\ paragraph_lines = <<>>
          /\ (lines = <<>> =>
                result = [book |-> [title |-> Untitled, chapters |-> <<>>]]))

\* The empty input has been parsed.
C4_Witness == pc = "done" /\ lines = <<>>

\* The first level-1 heading line of the input (0: there is none).
TitleLine(ls) ==
  LET c == {i \in 1..Len(ls) :
              IsHeadingLine(ls, i) /\ HEADING_RE(rstrip(ls[i])).level = 1}
  IN  IF c = {} THEN 0 ELSE Min(c)

\* The name line i of the input offers as author (None: it offers none):
\* the "by <name>" of a heading that is not the title heading, or of a line
\* that is not a heading.
AuthorAt(ls, i) ==
  IF IsHeadingLine(ls, i)
  THEN IF i = TitleLine(ls) THEN None
       ELSE BY_LINE_RE(strip(HEADING_RE(rstrip(ls[i])).text))
  ELSE BY_LINE_RE(strip(ls[i]))

\* The lines among the first n of the input that offer an author.
AuthorLines(ls, n) == {i \in 1..n : i <= Len(ls) /\ AuthorAt(ls, i) # None}

\* C5: once metadata.authors is set no later line changes it, and it holds
\* exactly one entry: the whitespace-normalized name of the earliest line
\* that offered an author.
C5_FirstAuthorWins ==
  /\ [][("authors" \in DOMAIN book_metadata) =>
          book_metadata' = book_metadata]_vars
  /\ [](("authors" \in DOMAIN book_metadata) =>
          /\ AuthorLines(lines, idx - 1) # {}
          /\ book_metadata.authors =
               <<normalize_whitespace(
                   AuthorAt(lines, Min(AuthorLines(lines, idx - 1))))>>)

\* Two lines offering different authors have been processed.
C5_Witness ==
  /\ "authors" \in DOMAIN book_metadata
  /\ \E i, j \in AuthorLines(lines, idx - 1) :
       i < j /\ AuthorAt(lines, i) # AuthorAt(lines, j)

\* No sentence record has an empty notes field.
NotesNonEmpty(chs) ==
  \A i \in 1..Len(chs) : \A j \in 1..Len(chs[i].paragraphs) :
    \A k \in 1..Len(chs[i].paragraphs[j].sentences) :
      LET st == chs[i].paragraphs[j].sentences[k]
      IN  "notes" \in DOMAIN st => st.notes # <<>>

\* The paragraph appended last to the current chapter of the next state.
LastParagraph ==
  LET ps == chapters'[current_chapter'].paragraphs IN ps[Len(ps)]

\* The loop is at a list-item line.
AtListItem == AtLine /\ ~heading_match.matched /\ IsListItem(stripped)

\* C6: the result has a metadata field exactly when some line offered an
\* author; a sentence record has a notes field exactly when extract_notes
\* found an annotation in its sentence; authors and notes, when present,
\* are not empty.
C6_OptionalFields ==
  /\ []NotesNonEmpty(chapters)
  /\ [](pc = "done" =>
          /\ ("metadata" \in DOMAIN result.book) <=>
               (AuthorLines(lines, Len(lines)) # {})
          /\ ("metadata" \in DOMAIN result.book) =>
               result.book.metadata.authors # <<>>
          /\ NotesNonEmpty(result.book.chapters))
  /\ [][AtListItem =>
          LET raw == split_sentences(stripped)
          IN  /\ Len(LastParagraph.sentences) = Len(raw)
              /\ \A k \in 1..Len(raw) :
                   ("notes" \in DOMAIN LastParagraph.sentences[k]) <=>
                     (extract_notes(raw[k])[2] # <<>>)]_vars

\* A returned document with a metadata field, a sentence with notes and a
\* sentence without.
C6_Witness ==
  /\ pc = "done"
  /\ "metadata" \in DOMAIN result.book
  /\ \E i \in 1..Len(chapters) : \E j \in 1..Len(chapters[i].paragraphs) :
       \E k \in 1..Len(chapters[i].paragraphs[j].sentences) :
         "notes" \in DOMAIN chapters[i].paragraphs[j].sentences[k]
  /\ \E i \in 1..Len(chapters) : \E j \in 1..Len(chapters[i].paragraphs) :
       \E k \in 1..Len(chapters[i].paragraphs[j].sentences) :
         "notes" \notin DOMAIN chapters[i].paragraphs[j].sentences[k]

\* C7: chapters are append-only: a step of the pass never removes or
\* reorders a chapter, never changes the number or title of a chapter, and
\* only appends to the paragraphs of a chapter.
C7_AppendOnly ==
  [][/\ Len(chapters') >= Len(chapters)
     /\ \A i \in 1..Len(chapters) :
          /\ chapters'[i].chapter_number = chapters[i].chapter_number
          /\ chapters'[i].chapter_title = chapters[i].chapter_title
          /\ Len(chapters'[i].paragraphs) >= Len(chapters[i].paragraphs)
          /\ SubSeq(chapters'[i].paragraphs, 1, Len(chapters[i].paragraphs))
               = chapters[i].paragraphs]_vars

\* Two chapters exist and one of them has got a second paragraph.
C7_Witness ==
  /\ Len(chapters) >= 2
  /\ \E i \in 1..Len(chapters) : Len(chapters[i].paragraphs) >= 2

\* The heading lines of the input that open a chapter.
ChapterHeadings(ls) ==
  {i \in 1..Len(ls) : IsHeadingLine(ls, i) /\ i # TitleLine(ls)}

\* The loop is at a line that only flushes (a heading or a blank line), or
\* the pass is at the final flush.
AtFlush ==
  /\ pc = "loop"
  /\ AtLine => (heading_match.matched \/ stripped = <<>>)

\* C8: every paragraph has at least one sentence; a flush whose joined text
\* is empty or segments into no sentence leaves every chapter as it is; a
\* chapter without paragraphs stays in the result.
C8_NoEmptyParagraph ==
  /\ [](\A i \in 1..Len(chapters) : \A j \in 1..Len(chapters[i].paragraphs) :
          Len(chapters[i].paragraphs[j].sentences) >= 1)
  /\ [][(AtFlush /\ split_sentences(join_lines(paragraph_lines)) = <<>>) =>
          \A i \in 1..Len(chapters) : chapters'[i] = chapters[i]]_vars
  /\ [](pc = "done" =>
          /\ result.book.chapters = chapters
          /\ Len(chapters) >= Cardinality(ChapterHeadings(lines)))

\* The line "..." was pending under an open chapter and a blank line has
\* flushed it: the chapter has no paragraph.
C8_Witness ==
  /\ pc = "loop" /\ idx >= 3
  /\ lines[idx - 1] = L_Blank /\ lines[idx - 2] = L_Dots
  /\ current_chapter # NoChapter
  /\ chapters[current_chapter].paragraphs = <<>>

\* The paragraphs of the current chapter (none when no chapter is open).
CurrentParagraphs ==
  IF current_chapter = NoChapter THEN <<>>
  ELSE chapters[current_chapter].paragraphs

\* The sentences the pending lines make up.
PendingSentences == sentence_entries(join_lines(paragraph_lines))

\* C9: a list-item line first flushes the pending prose as an earlier
\* paragraph of its own, then becomes one paragraph alone, and leaves the
\* pending buffer empty; an input of n list-item lines gives one chapter of
\* n paragraphs, the j-th made of the j-th item only.
C9_ListItems ==
  /\ [][AtListItem =>
          LET after == chapters'[current_chapter'].paragraphs
              n     == IF PendingSentences # <<>> THEN 1 ELSE 0
          IN  /\ paragraph_lines' = <<>>
              /\ Len(after) = Len(CurrentParagraphs) + n + 1
              /\ SubSeq(after, 1, Len(CurrentParagraphs)) = CurrentParagraphs
              /\ n = 1 => after[Len(after) - 1].sentences = PendingSentences
              /\ after[Len(after)].sentences = sentence_entries(stripped)]_vars
  /\ []((/\ pc = "done" /\ lines # <<>>
         /\ \A i \in 1..Len(lines) : IsListItem(strip(lines[i]))) =>
          /\ Len(chapters) = 1
          /\ Len(chapters[1].paragraphs) = Len(lines)
          /\ \A j \in 1..Len(lines) :
               chapters[1].paragraphs[j].sentences =
                 sentence_entries(strip(lines[j])))

\* Prose and two list items after it have been processed: the chapter has
\* three paragraphs.
C9_Witness ==
  /\ pc = "loop" /\ idx >= 4
  /\ lines[idx - 3] = L_Prose
  /\ lines[idx - 2] = L_Item /\ lines[idx - 1] = L_ItemNote
  /\ Len(CurrentParagraphs) = 3

\* What a part contributes to the notes: its identifier, or its bracket
\* content, stripped.
Payload(q) ==
  IF q.kind = "ref" THEN strip(q.body) ELSE strip(q.word \o q.body)

\* The payloads of the parts of one kind, in order.
Payloads(ps, kind) ==
  LET sel == SelectSeq(ps, LAMBDA q : q.kind = kind)
  IN  [k \in 1..Len(sel) |-> Payload(sel[k])]

\* The characters of the text parts, in order.
RECURSIVE PlainText(_)
PlainText(ps) ==
  IF ps = <<>> THEN <<>>
  ELSE (IF Head(ps).kind = "text" THEN Head(ps).body ELSE <<>>)
         \o PlainText(Tail(ps))

\* C10: extract_notes removes every marker and returns the payloads of all
\* "[^identifier]" markers from left to right, then those of all
\* "[footnote:...]" markers from left to right; "See this[^1] for detail."
\* gives "See this for detail." and the notes ["1"].
C10_NotesOrder ==
  pc = "returned" =>
    /\ ret[2] = Payloads(parts, "ref") \o Payloads(parts, "inline")
    /\ ret[1] = normalize_whitespace(PlainText(parts))
    /\ arg = T_SeeThis \o <<"[", "^", "1", "]">> \o T_ForDetail =>
         ret = <<T_SeeThisForDetail, <<T_One>>>>

\* extract_notes has returned for a sentence in which a "[footnote:...]"
\* marker stands left of a "[^identifier]" marker.
C10_Witness ==
  /\ pc = "returned"
  /\ \E i, j \in 1..Len(parts) :
       i < j /\ parts[i].kind = "inline" /\ parts[j].kind = "ref"

\* ---------------------------------------------------------------------
\* split_sentences called alone on short texts over the character classes
\* terminator, whitespace and other.

SplitChars == {"a", ".", "?", " ", "\t"}

SplitTexts == UNION {[1..k -> SplitChars] : k \in 0..MaxChars}

InitSplit ==
  /\ arg \in SplitTexts
  /\ parts = <<>>
  /\ ret = <<>>
  /\ pc = "call"
  /\ lines = <<>>
  /\ idx = 1
  /\ book_title = None
  /\ book_metadata = <<>>
  /\ chapters = <<>>
  /\ current_chapter = NoChapter
  /\ paragraph_lines = <<>>
  /\ result = None

\* The call split_sentences(arg).
SplitSentences ==
  /\ pc = "call"
  /\ ret' = split_sentences(arg)
  /\ pc' = "returned"
  /\ UNCHANGED <<arg, parts, parseVars>>

NextSplit == SplitSentences

SpecSplit == InitSplit /\ [][NextSplit]_vars

\* ---------------------------------------------------------------------

\* The loop is at a heading line.
AtHeading == AtLine /\ heading_match.matched

\* The loop is at a content line: a list item or a plain line.
AtContent == AtLine /\ ~heading_match.matched /\ stripped # <<>>

\* C11 as stated: a heading line, title or chapter heading, whose text
\* matches "by <name>" while no author is recorded leaves metadata.authors
\* equal to [the whitespace-normalized name].
C11_HeadingAuthor ==
  [][(/\ AtHeading
      /\ BY_LINE_RE(heading_text) # None
      /\ "authors" \notin DOMAIN book_metadata) =>
       book_metadata' =
         [authors |-> <<normalize_whitespace(BY_LINE_RE(heading_text))>>]]_vars

\* C12: a content line processed while no chapter is open appends one
\* fallback chapter, numbered as the next chapter and titled with the
\* document title if it is set, else "Section 1"; a content line processed
\* while a chapter is open, a blank line, the title heading and the steps
\* after the loop create no chapter.
C12_FallbackChapter ==
  /\ [][(AtContent /\ current_chapter = NoChapter) =>
          /\ Len(chapters') = Len(chapters) + 1
          /\ SubSeq(chapters', 1, Len(chapters)) = chapters
          /\ current_chapter' = Len(chapters')
          /\ chapters'[Len(chapters')].chapter_number = Len(chapters) + 1
          /\ chapters'[Len(chapters')].chapter_title =
               (IF book_title # None THEN book_title ELSE Section1)]_vars
  /\ [][(AtContent /\ current_chapter # NoChapter) =>
          Len(chapters') = Len(chapters)]_vars
  /\ [][(pc # "start" /\ ~AtContent /\ ~AtHeading) =>
          Len(chapters') = Len(chapters)]_vars
  /\ [][(AtHeading /\ book_title = None /\ heading_match.level = 1) =>
          Len(chapters') = Len(chapters)]_vars

\* A content line after the title heading has created a fallback chapter
\* titled with the document title, as second chapter.
C12_Witness ==
  /\ pc = "loop" /\ idx >= 2 /\ IsContentLine(lines, idx - 1)
  /\ book_title # None
  /\ Len(chapters) = 2 /\ current_chapter = 2
  /\ chapters[2].chapter_title = book_title

\* The text of heading line i of the input.
HeadingText(ls, i) == strip(HEADING_RE(rstrip(ls[i])).text)

\* C13: during the pass the title is set only by the first level-1 heading
\* line and never changes once set; that line creates no chapter and resets
\* the current chapter to none; every other heading line appends exactly
\* one chapter titled with its heading text and makes it the current one.
C13_TitleOnce ==
  /\ [][book_title # None => book_title' = book_title]_vars
  /\ [][(pc = "loop" /\ book_title' # book_title) =>
          /\ idx = TitleLine(lines)
          /\ book_title' = HeadingText(lines, idx)
          /\ Len(chapters') = Len(chapters)
          /\ current_chapter' = NoChapter]_vars
  /\ [][(AtHeading /\ idx = TitleLine(lines)) =>
          (book_title = None /\ book_title' # None)]_vars
  /\ [][(AtHeading /\ idx # TitleLine(lines)) =>
          /\ book_title' = book_title
          /\ Len(chapters') = Len(chapters) + 1
          /\ chapters'[Len(chapters')] =
               [chapter_number |-> Len(chapters) + 1,
                chapter_title |-> HeadingText(lines, idx),
                paragraphs |-> <<>>]
          /\ current_chapter' = Len(chapters')]_vars
  /\ [](pc = "done" =>
          result.book.title = (IF TitleLine(lines) = 0 THEN Untitled
                               ELSE HeadingText(lines, TitleLine(lines))))

\* The title heading came after a chapter, and a later level-1 heading has
\* opened a second chapter.
C13_Witness ==
  /\ pc = "loop" /\ idx >= 4
  /\ TitleLine(lines) = idx - 2
  /\ IsHeadingLine(lines, idx - 1)
  /\ HEADING_RE(rstrip(lines[idx - 1])).level = 1
  /\ Len(chapters) = 2 /\ current_chapter = 2

\* The chapters as they are once the pending sentences are flushed into
\* the current chapter.
WithPending ==
  IF current_chapter = NoChapter \/ PendingSentences = <<>> THEN chapters
  ELSE [chapters EXCEPT ![current_chapter].paragraphs =
          Append(@, [paragraph_number |-> Len(@) + 1,
                     sentences |-> PendingSentences])]

\* C14: a heading line flushes the pending paragraph before it changes the
\* chapter context: the pending sentences become a paragraph of the chapter
\* that was current before the heading, the chapter the heading opens
\* starts without paragraphs, and the buffer is empty afterwards.
C14_HeadingFlush ==
  [][AtHeading =>
       /\ paragraph_lines' = <<>>
       /\ Len(chapters') >= Len(chapters)
       /\ SubSeq(chapters', 1, Len(chapters)) = WithPending
       /\ \A i \in (Len(chapters) + 1)..Len(chapters') :
            chapters'[i].paragraphs = <<>>]_vars

\* A chapter heading has closed a pending paragraph of the chapter before
\* it.
C14_Witness ==
  /\ pc = "loop" /\ idx >= 3
  /\ IsHeadingLine(lines, idx - 1)
  /\ IsContentLine(lines, idx - 2) /\ ~IsListItem(strip(lines[idx - 2]))
  /\ Len(chapters) = 2 /\ current_chapter = 2
  /\ chapters[1].paragraphs # <<>>
  /\ chapters[2].paragraphs = <<>>

\* s ends with t.
EndsWith(s, t) ==
  Len(t) <= Len(s) /\ SubSeq(s, Len(s) - Len(t) + 1, Len(s)) = t

\* Line i of the input is a plain content line of the form "by <name>".
IsPlainByLine(ls, i) ==
  /\ IsContentLine(ls, i)
  /\ ~IsListItem(strip(ls[i]))
  /\ BY_LINE_RE(strip(ls[i])) # None

\* C15: a plain content line "by <name>" processed while no author is
\* recorded records the author and is also appended to the pending
\* paragraph of the ensured chapter; its text is in the output, where it
\* ends the last sentence when it is the last line of the input.
C15_ByLineKept ==
  /\ [][(AtLine /\ IsPlainByLine(lines, idx)
           /\ "authors" \notin DOMAIN book_metadata) =>
          /\ book_metadata' =
               [authors |-> <<normalize_whitespace(BY_LINE_RE(stripped))>>]
          /\ current_chapter' # NoChapter
          /\ current_chapter' = Len(chapters')
          /\ paragraph_lines' = Append(paragraph_lines, line)]_vars
  /\ [][(AtLine /\ IsPlainByLine(lines, idx)) =>
          paragraph_lines' = Append(paragraph_lines, line)]_vars
  /\ []((pc = "done" /\ lines # <<>> /\ IsPlainByLine(lines, Len(lines))) =>
          /\ result.book.chapters # <<>>
          /\ LET ch == result.book.chapters[Len(result.book.chapters)]
             IN  /\ ch.paragraphs # <<>>
                 /\ LET t == Texts(ch.paragraphs[Len(ch.paragraphs)])
                    IN  EndsWith(t[Len(t)],
                                 normalize_whitespace(lines[Len(lines)])))

\* The input ended with a plain by-line that was recorded as the author and
\* is the text of the only sentence of the output.
C15_Witness ==
  /\ pc = "done"
  /\ lines # <<>> /\ IsPlainByLine(lines, Len(lines))
  /\ "metadata" \in DOMAIN result.book
  /\ result.book.metadata.authors =
       <<normalize_whitespace(BY_LINE_RE(strip(lines[Len(lines)])))>>
  /\ Len(result.book.chapters) = 1
  /\ Len(result.book.chapters[1].paragraphs) = 1
  /\ Texts(result.book.chapters[1].paragraphs[1]) =
       <<normalize_whitespace(lines[Len(lines)])>>

\* C17: the current chapter is always none or the last chapter of the
\* list; chapters are only appended, and every chapter that has a successor
\* is left as it is by every step.
C17_CurrentIsLast ==
  /\ [](current_chapter \in {NoChapter, Len(chapters)})
  /\ [][/\ Len(chapters') >= Len(chapters)
        /\ \A i \in 1..(Len(chapters) - 1) : chapters'[i] = chapters[i]
        /\ (chapters # <<>> /\ Len(chapters') > Len(chapters)) =>
             chapters'[Len(chapters)] \in
               {chapters[Len(chapters)], WithPending[Len(chapters)]}]_vars

\* A second chapter is current and has received a paragraph while the
\* first one holds paragraphs too.
C17_Witness ==
  /\ Len(chapters) >= 2
  /\ current_chapter = Len(chapters)
  /\ chapters[Len(chapters)].paragraphs # <<>>
  /\ chapters[1].paragraphs # <<>>

\* C18: while lines are pending a current chapter exists, and the buffer is
\* empty when parse_markdown returns.
C18_PendingHasChapter ==
  /\ paragraph_lines # <<>> => current_chapter # NoChapter
  /\ pc \in {"flushed", "done"} => paragraph_lines = <<>>

\* Two lines are pending in a fallback chapter created for the first of
\* them.
C18_Witness ==
  /\ pc = "loop"
  /\ Len(paragraph_lines) = 2
  /\ current_chapter = 1
  /\ chapters[1].chapter_title = Section1

\* The position of the first terminator of s at or after i, Len(s) + 1 if
\* there is none.
NextTerm(s, i) ==
  LET t == {j \in i..Len(s) : s[j] \in Terminators}
  IN  IF t = {} THEN Len(s) + 1 ELSE Min(t)

\* The first position of the maximal run of non-terminators that ends at e.
RunStart(s, e) ==
  LET t == {j \in 1..e : s[j] \in Terminators}
  IN  IF t = {} THEN 1 ELSE Max(t) + 1

\* The characters b..e of s are all whitespace.
Blank(s, b, e) == \A j \in b..e : s[j] \in Whitespace

RECURSIVE TermTaken(_, _)
\* The terminator at p ends a sentence: a run of non-terminators stands
\* directly before it and is not itself consumed with an earlier sentence.
TermTaken(s, p) ==
  /\ p > 1
  /\ s[p - 1] \notin Terminators
  /\ LET b == RunStart(s, p - 1)
     IN  ~(b > 1 /\ Blank(s, b, p - 1) /\ TermTaken(s, b - 1))

\* The run b..e is whitespace that directly follows the terminator of a
\* sentence.
Consumed(s, b, e) == b > 1 /\ Blank(s, b, e) /\ TermTaken(s, b - 1)

RECURSIVE RunSentences(_, _, _)
\* The maximal runs of non-terminators of s from i on, in order, each with
\* the terminator after it if there is one, whitespace-normalized, the empty
\* ones dropped; with skip, without the runs consumed with the sentence
\* before them.
RunSentences(s, i, skip) ==
  IF i > Len(s) THEN <<>>
  ELSE IF s[i] \in Terminators THEN RunSentences(s, i + 1, skip)
  ELSE LET t    == NextTerm(s, i)
           text == normalize_whitespace(SubSeq(s, i, Min({t, Len(s)})))
           rest == RunSentences(s, t + 1, skip)
       IN  IF (skip /\ Consumed(s, i, t - 1)) \/ text = <<>> THEN rest
           ELSE <<text>> \o rest

\* C16 as stated: split_sentences returns, in order, every maximal run of
\* non-terminator characters extended by the terminator that follows it,
\* whitespace-normalized, the empty ones dropped.
C16_Original ==
  pc = "returned" => ret = RunSentences(strip(arg), 1, FALSE)

\* C16, amended: split_sentences returns, in order, the maximal runs of
\* non-terminator characters each extended by the terminator that follows
\* it, except the whitespace-only runs that directly follow the terminator
\* of a sentence, which are consumed with that sentence; every returned
\* sentence is non-empty, whitespace-normalized and holds at most one
\* terminator, as its last character; a final fragment without terminator
\* is returned; empty or whitespace-only input returns the empty sequence.
C16_Segments ==
  pc = "returned" =>
    LET p == strip(arg)
    IN  /\ ret = RunSentences(p, 1, TRUE)
        /\ \A k \in 1..Len(ret) :
             /\ ret[k] # <<>>
             /\ normalize_whitespace(ret[k]) = ret[k]
             /\ \A j \in 1..Len(ret[k]) :
                  ret[k][j] \in Terminators => j = Len(ret[k])
        /\ (p # <<>> /\ p[Len(p)] \notin Terminators) =>
             /\ ret # <<>>
             /\ ret[Len(ret)] = normalize_whitespace(
                                  SubSeq(p, RunStart(p, Len(p)), Len(p)))
        /\ p = <<>> => ret = <<>>

\* A text was split where whitespace and a terminator after a sentence were
\* consumed without becoming a sentence, and a final fragment without
\* terminator was returned.
C16_Witness ==
  /\ pc = "returned"
  /\ Len(ret) >= 2
  /\ ret # RunSentences(strip(arg), 1, FALSE)
  /\ ret[Len(ret)][Len(ret[Len(ret)])] \notin Terminators

\* Every sentence of every paragraph of the chapters has a non-empty text.
TextsNonEmpty(chs) ==
  \A c \in 1..Len(chs) : \A p \in 1..Len(chs[c].paragraphs) :
    \A k \in 1..Len(chs[c].paragraphs[p].sentences) :
      chs[c].paragraphs[p].sentences[k].text # <<>>

\* C19 as stated: every sentence record has a non-empty text, also the
\* record of a sentence that consists of annotation markers only.
C19_TextNonEmpty ==
  /\ TextsNonEmpty(chapters)
  /\ pc = "done" => TextsNonEmpty(result.book.chapters)

\* Every line from line i up to the line before the current one is blank.
BlankSince(i) == \A j \in i..(idx - 1) : strip(lines[j]) = <<>>

\* C20: a fallback chapter is created only for the first non-blank line of
\* the input or for the first non-blank line after the title heading, so a
\* run creates at most two of them and the chapters are at most the
\* non-title heading lines plus two; a fallback with the default title
\* "Section 1" is created only as chapter 1.
C20_FallbackBound ==
  /\ [](pc \in {"loop", "flushed", "done"} =>
          Len(chapters) <=
            Cardinality({i \in ChapterHeadings(lines) : i < idx}) + 2)
  /\ [][(AtContent /\ Len(chapters') > Len(chapters)) =>
          \/ book_title = None /\ BlankSince(1)
          \/ /\ book_title # None
             /\ TitleLine(lines) \in 1..(idx - 1)
             /\ BlankSince(TitleLine(lines) + 1)]_vars
  /\ [][(AtContent /\ Len(chapters') > Len(chapters) /\ book_title = None) =>
          chapters = <<>>]_vars

\* A run without chapter headings has ended with two fallback chapters, one
\* before and one after the title heading.
C20_Witness ==
  /\ pc = "done"
  /\ ChapterHeadings(lines) = {}
  /\ Len(result.book.chapters) = 2
  /\ result.book.chapters[1].chapter_title = Section1
  /\ result.book.chapters[2].chapter_title = result.book.title

====
